---- MODULE Spec2Model ----
(***************************************************************************)
(* Model of modules/archivo.py: reconstruction of a 3D volume from DICOM   *)
(* slices (CreaVolumen), the metadata summary (MetadataDT), the fixed      *)
(* threshold segmentation (segmentacion_hu), the multi-level Otsu          *)
(* segmentation (Segmentar_Otsu), the three-view display (MuestraVolumen)  *)
(* and the PNG export (guarda_segmentaciones_hu, GuardaSegmentacionOtsu,   *)
(* the former also as code/modules/archivo.py has it).                     *)
(*                                                                         *)
(* A DICOM dataset is a function from the names of the attributes it       *)
(* holds to their values: hasattr(ds, a) is a \in DOMAIN ds, and reading   *)
(* an attribute that is not there raises AttributeError.  A 2D array is a  *)
(* sequence of rows, a 3D array a sequence of 2D arrays.  Floating-point   *)
(* quotients are kept exact, as reduced fractions <<n, d>>.                *)
(***************************************************************************)
EXTENDS Integers, Sequences, FiniteSets, TLC

VARIABLES imagenes,     \* the list of slices handed to CreaVolumen / MetadataDT
          volumen,      \* the 3D array handed to the segmenters
          umbrales_hu,  \* the threshold table handed to segmentacion_hu
          classes,      \* the class count handed to Segmentar_Otsu
          retCrea,      \* outcome of the call of CreaVolumen
          retMeta,      \* outcome of the call of MetadataDT
          retHU,        \* outcome of the call of segmentacion_hu
          retOtsu,      \* outcome of the call of Segmentar_Otsu
          figura,       \* the figure MuestraVolumen has drawn
          copia,        \* the copy of archivo.py the save operations come from
          carpetas,     \* the folders that exist on disk
          archivos,     \* the image files on disk: path |-> raster
          retGuarda,    \* outcome of the latest save call
          llamadas,     \* number of save calls made
          operacion,    \* the function whose per-slice loop is running
          pc,           \* its position: before the loop, in the loop, returned
          hechos,       \* the slices whose loop step has run
          salida        \* the output volume the loop fills

varsMuestra == <<figura>>
varsGuarda == <<copia, carpetas, archivos, retGuarda, llamadas>>
varsBucle == <<operacion, pc, hechos, salida>>

vars == <<imagenes, volumen, umbrales_hu, classes, retCrea, retMeta, retHU, retOtsu,
          varsMuestra, varsGuarda, varsBucle>>

(***************************************************************************)
(* Bounds of the model.                                                    *)
(***************************************************************************)
MaxSlices == 2    \* longest list of slices / deepest volume
MaxDim == 2       \* most rows and most columns of a pixel array

NotCalled == [status |-> "not called"]
Raised(exc) == [status |-> exc]

\* the state of the parts of the program a specification does not run
MuestraIdle == figura = NotCalled

GuardaIdle ==
    /\ copia = "modules"
    /\ carpetas = {}
    /\ archivos = <<>>
    /\ retGuarda = NotCalled
    /\ llamadas = 0

BucleIdle ==
    /\ operacion = "none"
    /\ pc = "idle"
    /\ hechos = {}
    /\ salida = <<>>

(***************************************************************************)
(* Exact fractions.                                                        *)
(***************************************************************************)
Abs(x) == IF x < 0 THEN -x ELSE x

RECURSIVE GCD(_, _)
GCD(a, b) == IF b = 0 THEN a ELSE GCD(b, a % b)

\* n / d with d # 0, reduced, the denominator positive
Frac(n, d) ==
    LET g == GCD(Abs(n), Abs(d))
        s == IF d < 0 THEN -1 ELSE 1
    IN  <<(s * n) \div g, (s * d) \div g>>

RatMul(a, b) == Frac(a[1] * b[1], a[2] * b[2])
RatDiv(a, b) == Frac(a[1] * b[2], a[2] * b[1])
RatOne == <<1, 1>>

(***************************************************************************)
(* numpy arrays.                                                           *)
(***************************************************************************)
HasAttr(ds, a) == a \in DOMAIN ds

\* ndarray.shape of a 2D array
Shape(m) == <<Len(m), Len(m[1])>>

\* np.zeros((filas, columnas))
Zeros2D(filas, columnas) == [r \in 1..filas |-> [c \in 1..columnas |-> 0]]

\* volumen[i] = imagen is legal when every axis of imagen has the length of
\* the target's axis or length 1 (numpy broadcasting); else ValueError
Broadcastable(m, filas, columnas) ==
    /\ Len(m) = filas \/ Len(m) = 1
    /\ Len(m[1]) = columnas \/ Len(m[1]) = 1

\* the (filas, columnas) array the assignment stores: an axis of length 1
\* is repeated along the target's axis
Broadcast(m, filas, columnas) ==
    [r \in 1..filas |-> [c \in 1..columnas |->
        m[IF Len(m) = 1 THEN 1 ELSE r][IF Len(m[1]) = 1 THEN 1 ELSE c]]]

(***************************************************************************)
(* CreaVolumen                                                             *)
(***************************************************************************)
EscalaHounsfieldSwapped(escala, imagen, intercepto) ==
    [r \in DOMAIN imagen |-> [c \in DOMAIN imagen[r] |->
        intercepto * imagen[r][c] + escala]]

\* imagen = escala * imagen + intercepto, elementwise
EscalaHounsfield(escala, imagen, intercepto) ==
    [r \in DOMAIN imagen |-> [c \in DOMAIN imagen[r] |->
        escala * imagen[r][c] + intercepto]]

\* the slice whose RescaleIntercept and RescaleSlope calibrate slice i
SliceCalibracionFirst(imgs, i) == imgs[1]

SliceCalibracion(imgs, i) == imgs[i]

\* the loop over the slices, from slice i on; vol is the volume so far
RECURSIVE ConvierteSlices(_, _, _, _, _)
ConvierteSlices(imgs, i, filas, columnas, vol) ==
    IF i > Len(imgs) THEN [status |-> "ok", volumen |-> vol]
    ELSE IF ~HasAttr(SliceCalibracion(imgs, i), "RescaleIntercept")
         THEN Raised("AttributeError")
    ELSE IF ~HasAttr(SliceCalibracion(imgs, i), "RescaleSlope")
         THEN Raised("AttributeError")
    ELSE LET imagen == EscalaHounsfield(SliceCalibracion(imgs, i).RescaleSlope,
                                        imgs[i].pixel_array,
                                        SliceCalibracion(imgs, i).RescaleIntercept)
         IN  IF ~Broadcastable(imagen, filas, columnas)
             THEN Raised("ValueError")
             ELSE ConvierteSlices(imgs, i + 1, filas, columnas,
                     [vol EXCEPT ![i] = Broadcast(imagen, filas, columnas)])

SliceGeometriaLast(imgs) == imgs[Len(imgs)]

\* the slice whose PixelSpacing and SliceThickness give the geometry
SliceGeometria(imgs) == imgs[1]

\* tamaño_voxel = (slice_thickness, pixel_spacing[0], pixel_spacing[1])
TamanoVoxel(pixel_spacing, slice_thickness) ==
    <<slice_thickness, pixel_spacing[1], pixel_spacing[2]>>

RelacionAspectoSwapped(pixel_spacing, slice_thickness) ==
    << Frac(slice_thickness, pixel_spacing[2]),
       Frac(pixel_spacing[1], pixel_spacing[2]),
       Frac(slice_thickness, pixel_spacing[2]) >>

\* relacion_aspecto = (axial, sagital, coronal)
RelacionAspecto(pixel_spacing, slice_thickness) ==
    << Frac(slice_thickness, pixel_spacing[1]),
       Frac(pixel_spacing[1], pixel_spacing[2]),
       Frac(slice_thickness, pixel_spacing[2]) >>

CreaVolumen(imgs) ==
    IF Len(imgs) = 0 THEN Raised("IndexError")
    ELSE
    LET num_slices == Len(imgs)
        filas == Shape(imgs[1].pixel_array)[1]
        columnas == Shape(imgs[1].pixel_array)[2]
        conv == ConvierteSlices(imgs, 1, filas, columnas,
                    [i \in 1..num_slices |-> Zeros2D(filas, columnas)])
        s0 == SliceGeometria(imgs)
    IN  IF conv.status # "ok" THEN conv
        ELSE IF ~HasAttr(s0, "PixelSpacing") THEN Raised("AttributeError")
        ELSE IF ~HasAttr(s0, "SliceThickness") THEN Raised("AttributeError")
        ELSE IF s0.PixelSpacing[1] = 0 \/ s0.PixelSpacing[2] = 0
             THEN Raised("ZeroDivisionError")
        ELSE [status |-> "ok",
              volumen |-> conv.volumen,
              shape |-> <<num_slices, filas, columnas>>,
              relacion_aspecto |-> RelacionAspecto(s0.PixelSpacing, s0.SliceThickness),
              tamano_voxel |-> TamanoVoxel(s0.PixelSpacing, s0.SliceThickness)]

(***************************************************************************)
(* The slices the reconstruction is run on.                                *)
(***************************************************************************)
\* a rows x cols pixel array whose entries all differ
Ramp(rows, cols) == [r \in 1..rows |-> [c \in 1..cols |-> (r - 1) * cols + c]]

PixelArrays == {Ramp(rows, cols) : rows \in 1..MaxDim, cols \in 1..MaxDim}

\* (RescaleSlope, RescaleIntercept) of a slice; either may be missing
Calibrations ==
    { ("RescaleSlope" :> 1) @@ ("RescaleIntercept" :> 0),
      ("RescaleSlope" :> 2) @@ ("RescaleIntercept" :> -3),
      ("RescaleSlope" :> 1),
      ("RescaleIntercept" :> 0) }

\* PixelSpacing (row, column) and SliceThickness; either may be missing
PixelSpacings == {<<1, 1>>, <<1, 2>>, <<2, 3>>, <<0, 1>>}
SliceThicknesses == {0, 1, 2}

Geometries ==
    {("PixelSpacing" :> ps) @@ ("SliceThickness" :> st) :
        ps \in PixelSpacings, st \in SliceThicknesses}
    \cup {("PixelSpacing" :> ps) : ps \in PixelSpacings}
    \cup {("SliceThickness" :> st) : st \in SliceThicknesses}

\* slices that vary in pixel array and calibration
PixelSlices ==
    {("pixel_array" :> m) @@ cal @@ ("PixelSpacing" :> <<1, 2>>) @@ ("SliceThickness" :> 2) :
        m \in PixelArrays, cal \in Calibrations}

\* slices that vary in geometry
GeometrySlices ==
    {("pixel_array" :> Ramp(1, 1)) @@ ("RescaleSlope" :> 1) @@ ("RescaleIntercept" :> 0) @@ g :
        g \in Geometries}

SeqsUpTo(S, n) == UNION {[1..k -> S] : k \in 0..n}

NoVolume == <<>>
NoTable == <<>>

InitCrea ==
    /\ imagenes \in SeqsUpTo(PixelSlices, MaxSlices) \cup SeqsUpTo(GeometrySlices, MaxSlices)
    /\ volumen = NoVolume
    /\ umbrales_hu = NoTable
    /\ classes = 0
    /\ retCrea = NotCalled
    /\ retMeta = NotCalled
    /\ retHU = NotCalled
    /\ retOtsu = NotCalled
    /\ MuestraIdle /\ GuardaIdle /\ BucleIdle

CallCreaVolumen ==
    /\ retCrea = NotCalled
    /\ retCrea' = CreaVolumen(imagenes)
    /\ UNCHANGED <<imagenes, volumen, umbrales_hu, classes, retMeta, retHU, retOtsu,
                   varsMuestra, varsGuarda, varsBucle>>

Init == InitCrea
Next == CallCreaVolumen
Spec == Init /\ [][Next]_vars

(***************************************************************************)
(* Properties of CreaVolumen.                                              *)
(***************************************************************************)
CreaCalled == retCrea.status # "not called"
CreaOk == retCrea.status = "ok"

AllSameShape(imgs) ==
    \A i \in 1..Len(imgs) : Shape(imgs[i].pixel_array) = Shape(imgs[1].pixel_array)

\* every slice carries its calibration, slice 0 a usable geometry
WellFormed(imgs) ==
    /\ \A i \in 1..Len(imgs) :
          HasAttr(imgs[i], "RescaleSlope") /\ HasAttr(imgs[i], "RescaleIntercept")
    /\ HasAttr(imgs[1], "PixelSpacing") /\ HasAttr(imgs[1], "SliceThickness")
    /\ imgs[1].PixelSpacing[1] > 0 /\ imgs[1].PixelSpacing[2] > 0

\* C1: for a non-empty list of well-formed slices of one shape, CreaVolumen
\* returns a volume of shape (numSlices, rows, columns) whose voxel [i][r][c]
\* is slope_i * raw_i[r][c] + intercept_i, with slice i's own slope and
\* intercept; with slope 1 and intercept 0 everywhere it is the raw data.
C1_CalibratedVolume ==
    (CreaCalled /\ Len(imagenes) > 0 /\ AllSameShape(imagenes) /\ WellFormed(imagenes)) =>
        LET n == Len(imagenes)
            shp == Shape(imagenes[1].pixel_array)
        IN  /\ CreaOk
            /\ retCrea.shape = <<n, shp[1], shp[2]>>
            /\ Len(retCrea.volumen) = n
            /\ \A i \in 1..n :
                  /\ Shape(retCrea.volumen[i]) = shp
                  /\ \A r \in 1..shp[1], c \in 1..shp[2] :
                        retCrea.volumen[i][r][c] =
                            imagenes[i].RescaleSlope * imagenes[i].pixel_array[r][c]
                                + imagenes[i].RescaleIntercept
            /\ (\A i \in 1..n : imagenes[i].RescaleSlope = 1 /\ imagenes[i].RescaleIntercept = 0)
                  => \A i \in 1..n : retCrea.volumen[i] = imagenes[i].pixel_array

\* two slices of one shape with more than one voxel and different calibrations
C1_Witness ==
    /\ CreaOk
    /\ Len(imagenes) = 2
    /\ AllSameShape(imagenes)
    /\ Shape(imagenes[1].pixel_array) = <<2, 2>>
    /\ imagenes[1].RescaleSlope # imagenes[2].RescaleSlope
    /\ imagenes[1].RescaleIntercept # imagenes[2].RescaleIntercept

\* slice s with its PixelSpacing / SliceThickness replaced by those of g
WithGeometry(s, g) ==
    [a \in DOMAIN s \ {"PixelSpacing", "SliceThickness"} |-> s[a]] @@ g

\* C3: voxelSize and the aspect ratios come from slice 0 alone:
\* voxelSize = (thickness, rowSpacing, colSpacing), ratios = (thickness /
\* rowSpacing, rowSpacing / colSpacing, thickness / colSpacing) of slice 0,
\* and no other geometry on a slice i > 0 changes either value.
C3_GeometryFromSlice0 ==
    CreaOk =>
        LET ps == imagenes[1].PixelSpacing
            st == imagenes[1].SliceThickness
        IN  /\ retCrea.tamano_voxel = <<st, ps[1], ps[2]>>
            /\ retCrea.relacion_aspecto =
                  <<Frac(st, ps[1]), Frac(ps[1], ps[2]), Frac(st, ps[2])>>
            /\ \A i \in 2..Len(imagenes), g \in Geometries :
                  LET alt == CreaVolumen([imagenes EXCEPT ![i] = WithGeometry(@, g)])
                  IN  /\ alt.status = "ok"
                      /\ alt.tamano_voxel = retCrea.tamano_voxel
                      /\ alt.relacion_aspecto = retCrea.relacion_aspecto

\* a second slice whose spacing and thickness both differ from slice 0's
C3_Witness ==
    /\ CreaOk
    /\ Len(imagenes) = 2
    /\ HasAttr(imagenes[2], "PixelSpacing") /\ HasAttr(imagenes[2], "SliceThickness")
    /\ imagenes[2].PixelSpacing # imagenes[1].PixelSpacing
    /\ imagenes[2].SliceThickness # imagenes[1].SliceThickness
    /\ imagenes[1].SliceThickness = 2 /\ imagenes[1].PixelSpacing = <<2, 3>>

\* C8: a slice whose (rows, columns) differ from slice 0's makes CreaVolumen
\* fail and return no volume, whatever the differing shape.
C8_ShapeMismatchFails ==
    (CreaCalled /\ Len(imagenes) > 0 /\ ~AllSameShape(imagenes)) => ~CreaOk

MissingCalibration(s) ==
    \/ ~HasAttr(s, "RescaleSlope")
    \/ ~HasAttr(s, "RescaleIntercept")
    \/ ~HasAttr(s, "PixelSpacing")
    \/ ~HasAttr(s, "SliceThickness")

\* C9 as stated: a slice at any index that lacks its slope, intercept, pixel
\* spacing or slice thickness makes CreaVolumen fail and return no volume.
C9_AsStated ==
    (CreaCalled /\ \E i \in 1..Len(imagenes) : MissingCalibration(imagenes[i])) => ~CreaOk

\* C9 amended: CreaVolumen fails and returns no volume when a slice at any
\* index lacks its slope or intercept, or slice 0 lacks its pixel spacing or
\* slice thickness.
C9_MissingCalibrationFails ==
    (/\ CreaCalled
     /\ Len(imagenes) > 0
     /\ \/ \E i \in 1..Len(imagenes) :
              ~HasAttr(imagenes[i], "RescaleSlope") \/ ~HasAttr(imagenes[i], "RescaleIntercept")
        \/ ~HasAttr(imagenes[1], "PixelSpacing")
        \/ ~HasAttr(imagenes[1], "SliceThickness"))
    => (~CreaOk /\ DOMAIN retCrea = {"status"})

\* the call failed on a slice after a well-formed slice 0: the second slice
\* lacks its slope
C9_Witness ==
    /\ retCrea.status = "AttributeError"
    /\ Len(imagenes) = 2
    /\ ~MissingCalibration(imagenes[1])
    /\ ~HasAttr(imagenes[2], "RescaleSlope")
    /\ Shape(imagenes[2].pixel_array) = Shape(imagenes[1].pixel_array)

PositiveGeometry(s) ==
    s.SliceThickness > 0 /\ s.PixelSpacing[1] > 0 /\ s.PixelSpacing[2] > 0

\* C10 as stated: for positive thickness and spacings,
\* axial * (colSpacing / rowSpacing) / coronal = 1.
C10_AsStated ==
    (CreaOk /\ PositiveGeometry(imagenes[1])) =>
        RatDiv(RatMul(retCrea.relacion_aspecto[1],
                      Frac(imagenes[1].PixelSpacing[2], imagenes[1].PixelSpacing[1])),
               retCrea.relacion_aspecto[3]) = RatOne

\* C10 amended: for positive thickness and spacings,
\* axial * (rowSpacing / colSpacing) / coronal = 1.
C10_AspectIdentity ==
    (CreaOk /\ PositiveGeometry(imagenes[1])) =>
        RatDiv(RatMul(retCrea.relacion_aspecto[1],
                      Frac(imagenes[1].PixelSpacing[1], imagenes[1].PixelSpacing[2])),
               retCrea.relacion_aspecto[3]) = RatOne

\* positive geometry with different row and column spacing
C10_Witness ==
    /\ CreaOk
    /\ PositiveGeometry(imagenes[1])
    /\ imagenes[1].PixelSpacing = <<2, 3>>
    /\ imagenes[1].SliceThickness = 1
    /\ retCrea.relacion_aspecto = <<<<1, 2>>, <<2, 3>>, <<1, 3>>>>

(***************************************************************************)
(* MetadataDT                                                              *)
(*                                                                         *)
(* A field of the returned dictionary is a tagged value: a string, a       *)
(* number or a tuple.  The keys are written without accents.               *)
(***************************************************************************)
Str(x) == [kind |-> "str", v |-> x]
Tup(x) == [kind |-> "tuple", v |-> x]

NoDisponible == Str("No disponible")

\* x != "No disponible" / x == "No disponible" on a field
IsNoDisponible(f) == f.kind = "str" /\ f.v = "No disponible"

AtributoOVacio(ds, a, tag) ==
    IF HasAttr(ds, a)
    THEN [kind |-> tag, v |-> ds[a]]
    ELSE Str("")

\* ds.a if hasattr(ds, a) else "No disponible"
AtributoONoDisponible(ds, a, tag) ==
    IF HasAttr(ds, a)
    THEN [kind |-> tag, v |-> ds[a]]
    ELSE NoDisponible

\* truth value of a number: zero is false
Truthy(x) == x # 0

\* tamaño_voxel of MetadataDT: pixel_spacing and slice_thickness are None when
\* the attribute is missing, and the tuple is built only if both are truthy
TamanoVoxelMeta(ds) ==
    IF /\ HasAttr(ds, "PixelSpacing")
       /\ HasAttr(ds, "SliceThickness")
       /\ Truthy(ds.SliceThickness)
    THEN Tup(<<ds.SliceThickness, ds.PixelSpacing[1], ds.PixelSpacing[2]>>)
    ELSE NoDisponible

\* tamaño_imagen_voxeles = (Rows, Columns)
TamanoImagenVoxeles(ds) ==
    IF HasAttr(ds, "Rows") /\ HasAttr(ds, "Columns")
    THEN Tup(<<ds.Rows, ds.Columns>>)
    ELSE NoDisponible

\* tamaño_imagen_mm = (Rows * tamaño_voxel[0], Columns * tamaño_voxel[1])
TamanoImagenMm(ds, tamano_voxel, tamano_imagen_voxeles) ==
    IF ~IsNoDisponible(tamano_voxel) /\ ~IsNoDisponible(tamano_imagen_voxeles)
    THEN Tup(<<ds.Rows * tamano_voxel.v[1], ds.Columns * tamano_voxel.v[2]>>)
    ELSE NoDisponible

MetadataDT(imgs) ==
    IF Len(imgs) = 0 THEN Raised("IndexError")
    ELSE
    LET i == imgs[1]
        tamano_voxel == TamanoVoxelMeta(i)
        tamano_imagen_voxeles == TamanoImagenVoxeles(i)
        tamano_imagen_mm == TamanoImagenMm(i, tamano_voxel, tamano_imagen_voxeles)
    IN  [status |-> "ok",
         metadatos_imagen |->
            ("Nombre del sujeto" :> AtributoONoDisponible(i, "PatientName", "str"))
         @@ ("Edad del sujeto" :> AtributoONoDisponible(i, "PatientAge", "str"))
         @@ ("Sexo del sujeto" :> AtributoONoDisponible(i, "PatientSex", "str"))
         @@ ("Tipo de imagen" :> AtributoONoDisponible(i, "Modality", "str"))
         @@ ("Fecha de adquisicion" :> AtributoONoDisponible(i, "AcquisitionDate", "str"))
         @@ ("Modelo del tomografo" :> AtributoONoDisponible(i, "ManufacturerModelName", "str"))
         @@ ("Espesor del corte" :> AtributoONoDisponible(i, "SliceThickness", "num"))
         @@ ("Tamano voxel" :> tamano_voxel)
         @@ ("Tamano imagen completa en voxeles" :> tamano_imagen_voxeles)
         @@ ("Tamano imagen completa en mm" :> tamano_imagen_mm)]

(***************************************************************************)
(* The slices the summary is run on.                                       *)
(***************************************************************************)
\* the descriptive attributes and the value slice 0 gives each when it has it
Descriptive ==
       ("PatientName" :> "DOE^JANE")
    @@ ("PatientAge" :> "045Y")
    @@ ("PatientSex" :> "F")
    @@ ("Modality" :> "CT")
    @@ ("AcquisitionDate" :> "20241009")
    @@ ("ManufacturerModelName" :> "Scanner A")

\* the field of the summary that reports each descriptive attribute
CampoDe ==
       ("PatientName" :> "Nombre del sujeto")
    @@ ("PatientAge" :> "Edad del sujeto")
    @@ ("PatientSex" :> "Sexo del sujeto")
    @@ ("Modality" :> "Tipo de imagen")
    @@ ("AcquisitionDate" :> "Fecha de adquisicion")
    @@ ("ManufacturerModelName" :> "Modelo del tomografo")

Restrict(f, S) == [a \in S |-> f[a]]

\* the attributes the computed fields rest on; each may be missing
SizeAttributes ==
    {Restrict(g, S) :
        g \in {  ("PixelSpacing" :> ps) @@ ("SliceThickness" :> st)
              @@ ("Rows" :> 2) @@ ("Columns" :> 3) :
                 ps \in {<<1, 2>>, <<2, 3>>}, st \in SliceThicknesses},
        S \in SUBSET {"PixelSpacing", "SliceThickness", "Rows", "Columns"}}

MetaSlices ==
    {Restrict(Descriptive, S) @@ g : S \in SUBSET DOMAIN Descriptive, g \in SizeAttributes}

\* a later slice of the same folder, every attribute present and different
OtherSlice ==
       ("PatientName" :> "ROE^RICHARD") @@ ("PatientAge" :> "060Y")
    @@ ("PatientSex" :> "M") @@ ("Modality" :> "MR")
    @@ ("AcquisitionDate" :> "20250101") @@ ("ManufacturerModelName" :> "Scanner B")
    @@ ("PixelSpacing" :> <<3, 3>>) @@ ("SliceThickness" :> 5)
    @@ ("Rows" :> 7) @@ ("Columns" :> 7)

InitMeta ==
    /\ imagenes \in {<<s>> : s \in MetaSlices} \cup {<<s, OtherSlice>> : s \in MetaSlices}
    /\ volumen = NoVolume
    /\ umbrales_hu = NoTable
    /\ classes = 0
    /\ retCrea = NotCalled
    /\ retMeta = NotCalled
    /\ retHU = NotCalled
    /\ retOtsu = NotCalled
    /\ MuestraIdle /\ GuardaIdle /\ BucleIdle

CallMetadataDT ==
    /\ retMeta = NotCalled
    /\ retMeta' = MetadataDT(imagenes)
    /\ UNCHANGED <<imagenes, volumen, umbrales_hu, classes, retCrea, retHU, retOtsu,
                   varsMuestra, varsGuarda, varsBucle>>

NextMeta == CallMetadataDT
SpecMeta == InitMeta /\ [][NextMeta]_vars

(***************************************************************************)
(* Properties of MetadataDT.                                               *)
(***************************************************************************)
MetaCalled == retMeta.status # "not called"

\* C5: whatever subset of the descriptive attributes slice 0 lacks,
\* MetadataDT returns, the fields of exactly the missing attributes hold
\* "No disponible", and every other descriptive field holds slice 0's value.
C5_SentinelForAbsent ==
    MetaCalled =>
        /\ retMeta.status = "ok"
        /\ \A a \in DOMAIN Descriptive :
              LET campo == retMeta.metadatos_imagen[CampoDe[a]]
              IN  /\ IsNoDisponible(campo) <=> ~HasAttr(imagenes[1], a)
                  /\ HasAttr(imagenes[1], a) => campo = Str(imagenes[1][a])

\* scenario C: only the acquisition date is missing, and a later slice has one
C5_Witness ==
    /\ retMeta.status = "ok"
    /\ Len(imagenes) = 2
    /\ DOMAIN Descriptive \ DOMAIN imagenes[1] = {"AcquisitionDate"}
    /\ IsNoDisponible(retMeta.metadatos_imagen["Fecha de adquisicion"])
    /\ retMeta.metadatos_imagen["Nombre del sujeto"] = Str("DOE^JANE")

\* C6: MetadataDT never fails; voxel size is the sentinel exactly when pixel
\* spacing or slice thickness is missing from slice 0, image size in voxels
\* exactly when Rows or Columns is missing, and image size in mm exactly when
\* voxel size or image size in voxels is the sentinel.
C6_ComputedFieldsUnavailable ==
    MetaCalled =>
        /\ retMeta.status = "ok"
        /\ LET m == retMeta.metadatos_imagen
               s0 == imagenes[1]
           IN  /\ IsNoDisponible(m["Tamano voxel"])
                     <=> (~HasAttr(s0, "PixelSpacing") \/ ~HasAttr(s0, "SliceThickness"))
               /\ IsNoDisponible(m["Tamano imagen completa en voxeles"])
                     <=> (~HasAttr(s0, "Rows") \/ ~HasAttr(s0, "Columns"))
               /\ IsNoDisponible(m["Tamano imagen completa en mm"])
                     <=> (\/ IsNoDisponible(m["Tamano voxel"])
                          \/ IsNoDisponible(m["Tamano imagen completa en voxeles"]))

\* C16: when voxel size and image size in voxels are both available, the
\* field 'Tamano imagen completa en mm' is the in-plane size of the image,
\* (Rows * rowSpacing, Columns * colSpacing).
C16_SizeInMmIsInPlane ==
    MetaCalled =>
        LET m == retMeta.metadatos_imagen
            s0 == imagenes[1]
        IN  (/\ ~IsNoDisponible(m["Tamano voxel"])
             /\ ~IsNoDisponible(m["Tamano imagen completa en voxeles"]))
            => m["Tamano imagen completa en mm"]
                  = Tup(<<s0.Rows * s0.PixelSpacing[1], s0.Columns * s0.PixelSpacing[2]>>)

(***************************************************************************)
(* segmentacion_hu                                                         *)
(*                                                                         *)
(* The table umbrales_hu is a dictionary in insertion order: a sequence of *)
(* entries <<tejido, <<hu_min, hu_max>>>> with distinct keys.  The result  *)
(* is a dictionary from tissue name to mask.                               *)
(***************************************************************************)
EnRangoStrict(v, hu_min, hu_max) == v > hu_min /\ v < hu_max

\* np.logical_and(volumen >= hu_min, volumen <= hu_max) at one voxel
EnRango(v, hu_min, hu_max) == v >= hu_min /\ v <= hu_max

\* the mask of one tissue: .astype(np.uint8) of the elementwise test
Mascara(vol, hu_min, hu_max) ==
    [i \in DOMAIN vol |-> [r \in DOMAIN vol[i] |-> [c \in DOMAIN vol[i][r] |->
        IF EnRango(vol[i][r][c], hu_min, hu_max) THEN 1 ELSE 0]]]

EmptyDict == [t \in {} |-> 0]

\* segmentaciones[tejido] = mask: the key is added or overwritten
DictSet(dict, k, val) == (k :> val) @@ dict

\* the loop over umbrales_hu.items(), from entry j on
RECURSIVE SegmentaTejidos(_, _, _, _)
SegmentaTejidos(vol, tabla, j, segmentaciones) ==
    IF j > Len(tabla) THEN segmentaciones
    ELSE SegmentaTejidos(vol, tabla, j + 1,
            DictSet(segmentaciones, tabla[j][1],
                    Mascara(vol, tabla[j][2][1], tabla[j][2][2])))

segmentacion_hu(vol, tabla) ==
    [status |-> "ok", segmentaciones |-> SegmentaTejidos(vol, tabla, 1, EmptyDict)]

(***************************************************************************)
(* The volumes and tables the segmentation is run on.                      *)
(***************************************************************************)
Tejidos == {"aire", "grasa"}
HUValues == {0, 1}
HUThresholds == {0, 1, 2}

\* volumes of up to MaxSlices slices of one row and up to MaxDim columns
VolumesOver(values, ncols) ==
    UNION {[1..n -> [1..1 -> [1..ncols -> values]]] : n \in 1..MaxSlices}

HUVolumes == UNION {VolumesOver(HUValues, ncols) : ncols \in 1..MaxDim}

Intervals == HUThresholds \X HUThresholds

\* tables over Tejidos, each tissue at most once, in every insertion order
Tables ==
    {t \in UNION {[1..k -> Tejidos \X Intervals] : k \in 0..Cardinality(Tejidos)} :
        \A a, b \in DOMAIN t : a # b => t[a][1] # t[b][1]}

InitHU ==
    /\ imagenes = <<>>
    /\ volumen \in HUVolumes
    /\ umbrales_hu \in Tables
    /\ classes = 0
    /\ retCrea = NotCalled
    /\ retMeta = NotCalled
    /\ retHU = NotCalled
    /\ retOtsu = NotCalled
    /\ MuestraIdle /\ GuardaIdle /\ BucleIdle

CallSegmentacionHU ==
    /\ retHU = NotCalled
    /\ retHU' = segmentacion_hu(volumen, umbrales_hu)
    /\ UNCHANGED <<imagenes, volumen, umbrales_hu, classes, retCrea, retMeta, retOtsu,
                   varsMuestra, varsGuarda, varsBucle>>

NextHU == CallSegmentacionHU
SpecHU == InitHU /\ [][NextHU]_vars

(***************************************************************************)
(* Properties of segmentacion_hu.                                          *)
(***************************************************************************)
HUCalled == retHU.status # "not called"

ValidTable(tabla) == \A j \in DOMAIN tabla : tabla[j][2][1] <= tabla[j][2][2]

Voxels(vol) ==
    {<<i, r, c>> : i \in DOMAIN vol, r \in DOMAIN vol[1], c \in DOMAIN vol[1][1]}

\* the tissues whose mask holds 1 at voxel x
Membership(seg, x) == {t \in DOMAIN seg : seg[t][x[1]][x[2]][x[3]] = 1}

\* C2: for a table with min <= max in every entry, segmentacion_hu returns
\* one mask per entry, of the volume's shape, with 1 where min <= value <= max
\* (both bounds inclusive) and 0 elsewhere; a voxel's set of tissues with
\* mask value 1 is exactly {tissue : min <= value <= max}.
C2_MasksAreIntervals ==
    (HUCalled /\ ValidTable(umbrales_hu)) =>
        /\ retHU.status = "ok"
        /\ DOMAIN retHU.segmentaciones = {umbrales_hu[j][1] : j \in DOMAIN umbrales_hu}
        /\ \A j \in DOMAIN umbrales_hu :
              LET mask == retHU.segmentaciones[umbrales_hu[j][1]]
                  hu_min == umbrales_hu[j][2][1]
                  hu_max == umbrales_hu[j][2][2]
              IN  /\ DOMAIN mask = DOMAIN volumen
                  /\ \A i \in DOMAIN volumen :
                        /\ DOMAIN mask[i] = DOMAIN volumen[i]
                        /\ \A r \in DOMAIN volumen[i] :
                              DOMAIN mask[i][r] = DOMAIN volumen[i][r]
                  /\ \A x \in Voxels(volumen) :
                        mask[x[1]][x[2]][x[3]] =
                            IF hu_min <= volumen[x[1]][x[2]][x[3]]
                               /\ volumen[x[1]][x[2]][x[3]] <= hu_max
                            THEN 1 ELSE 0
        /\ \A x \in Voxels(volumen) :
              Membership(retHU.segmentaciones, x) =
                  {umbrales_hu[j][1] : j \in
                      {k \in DOMAIN umbrales_hu :
                          /\ umbrales_hu[k][2][1] <= volumen[x[1]][x[2]][x[3]]
                          /\ volumen[x[1]][x[2]][x[3]] <= umbrales_hu[k][2][2]}}

\* overlapping intervals: one voxel on a bound of both tissues, one in a gap
C2_Witness ==
    /\ retHU.status = "ok"
    /\ ValidTable(umbrales_hu)
    /\ Len(umbrales_hu) = 2
    /\ umbrales_hu[1][2] # umbrales_hu[2][2]
    /\ \E x, y \in Voxels(volumen) :
          /\ Membership(retHU.segmentaciones, x) = Tejidos
          /\ Membership(retHU.segmentaciones, y) = {}
          /\ \E j \in DOMAIN umbrales_hu : umbrales_hu[j][2][1] = volumen[x[1]][x[2]][x[3]]
          /\ \E j \in DOMAIN umbrales_hu : umbrales_hu[j][2][2] = volumen[x[1]][x[2]][x[3]]

\* C7: a table with min > max in some entry makes segmentacion_hu fail
\* before any mask is produced: no result, not even the masks of the
\* well-formed entries before the malformed one.
C7_InvalidThresholdFails ==
    (HUCalled /\ ~ValidTable(umbrales_hu)) =>
        (retHU.status # "ok" /\ DOMAIN retHU = {"status"})

(***************************************************************************)
(* Segmentar_Otsu                                                          *)
(*                                                                         *)
(* threshold_multiotsu is given a floating-point slice (the volume is      *)
(* created by np.zeros) and the default number of bins: it histograms the  *)
(* slice into NBins equal bins between the slice's minimum and maximum,    *)
(* raises ValueError when fewer than `classes` bins are occupied, and else *)
(* returns the centres of the classes - 1 bins that maximise the           *)
(* between-class variance of the histogram, the first such choice in the   *)
(* order of its search.  np.digitize then labels each voxel with the       *)
(* number of thresholds that are <= its intensity.                         *)
(***************************************************************************)
NBins == 256

RECURSIVE Factorial(_)
Factorial(n) == IF n <= 1 THEN 1 ELSE n * Factorial(n - 1)

SetMin(S) == CHOOSE x \in S : \A y \in S : x <= y
SetMax(S) == CHOOSE x \in S : \A y \in S : x >= y

RECURSIVE SortedSeq(_)
SortedSeq(S) == IF S = {} THEN <<>> ELSE <<SetMin(S)>> \o SortedSeq(S \ {SetMin(S)})

\* the positions and the intensities of a 2D array
Positions(imagen) == {<<r, c>> : r \in DOMAIN imagen, c \in DOMAIN imagen[1]}
Intensities(imagen) == {imagen[x[1]][x[2]] : x \in Positions(imagen)}

\* the bin of np.histogram(image, bins=NBins) that holds x, for lo < hi
BinOf(x, lo, hi) ==
    IF x = hi THEN NBins - 1 ELSE ((x - lo) * NBins) \div (hi - lo)

\* the occupied bins of the slice's histogram; a constant slice has its
\* range widened and falls into one bin
OccupiedBins(imagen) ==
    LET vals == Intensities(imagen)
        lo == SetMin(vals)
        hi == SetMax(vals)
    IN  IF lo = hi THEN {NBins \div 2}
        ELSE {BinOf(x, lo, hi) : x \in vals}

\* the bin of every voxel of the slice, in some order
BinsOf(imagen) ==
    LET vals == Intensities(imagen)
        lo == SetMin(vals)
        hi == SetMax(vals)
        RECURSIVE list(_)
        list(pos) ==
            IF pos = {} THEN <<>>
            ELSE LET x == CHOOSE y \in pos : TRUE
                 IN  <<IF lo = hi THEN NBins \div 2 ELSE BinOf(imagen[x[1]][x[2]], lo, hi)>>
                        \o list(pos \ {x})
    IN  list(Positions(imagen))

\* number of voxels whose bin lies in a..b, or the sum of their bins
RECURSIVE BinSum(_, _, _, _, _)
BinSum(bins, j, a, b, weighted) ==
    IF j > Len(bins) THEN 0
    ELSE (IF bins[j] >= a /\ bins[j] <= b THEN (IF weighted THEN bins[j] ELSE 1) ELSE 0)
            + BinSum(bins, j + 1, a, b, weighted)

\* the between-class variance term of the class of bins a..b, times scale:
\* (first moment)^2 / (zeroth moment), 0 for a class without voxels
VarBtwn(bins, a, b, scale) ==
    LET p == BinSum(bins, 1, a, b, FALSE)
        m == BinSum(bins, 1, a, b, TRUE)
    IN  IF p > 0 THEN (m * m * scale) \div p ELSE 0

\* sigma of the threshold indices idx (increasing), times scale
Sigma(bins, idx, scale) ==
    LET n == Len(idx)
        lower(j) == IF j = 1 THEN 0 ELSE idx[j - 1] + 1
        upper(j) == IF j = n + 1 THEN NBins - 1 ELSE idx[j]
        RECURSIVE total(_)
        total(j) == IF j > n + 1 THEN 0
                    ELSE VarBtwn(bins, lower(j), upper(j), scale) + total(j + 1)
    IN  total(1)

\* idx comes before or at jdx in the order of the search
RECURSIVE LexLeq(_, _)
LexLeq(idx, jdx) ==
    \/ idx = <<>>
    \/ Head(idx) < Head(jdx)
    \/ Head(idx) = Head(jdx) /\ LexLeq(Tail(idx), Tail(jdx))

\* the threshold indices of maximal sigma, the first found.  Every maximal
\* choice has a voxel in each class, and the first one puts each threshold on
\* the last occupied bin of its class, so the search runs over occupied bins.
MultiOtsuIndices(imagen, count) ==
    LET occ == OccupiedBins(imagen)
        bins == BinsOf(imagen)
        scale == Factorial(Len(bins))
        cand == {idx \in [1..count -> occ \ {SetMax(occ)}] :
                    \A j \in 1..(count - 1) : idx[j] < idx[j + 1]}
        sigma == [idx \in cand |-> Sigma(bins, idx, scale)]
    IN  CHOOSE idx \in cand :
            \A jdx \in cand :
                \/ sigma[idx] > sigma[jdx]
                \/ sigma[idx] = sigma[jdx] /\ LexLeq(idx, jdx)

\* threshold_multiotsu(imagen, classes): the indices of the threshold bins
threshold_multiotsu(imagen, k) ==
    LET occ == OccupiedBins(imagen)
        nvalues == Cardinality(occ)
    IN  IF nvalues < k THEN Raised("ValueError")
        ELSE IF nvalues = k
             THEN [status |-> "ok", thresh_idx |-> SortedSeq(occ \ {SetMax(occ)})]
        ELSE [status |-> "ok", thresh_idx |-> MultiOtsuIndices(imagen, k - 1)]

\* x >= bin_centers[j], the centre of bin j being lo + (j + 1/2)(hi - lo)/NBins
AtOrAboveCentre(x, j, lo, hi) == 2 * NBins * (x - lo) >= (2 * j + 1) * (hi - lo)

DigitizeBelow(x, thresh_idx, lo, hi) ==
    Cardinality({j \in DOMAIN thresh_idx : ~AtOrAboveCentre(x, thresh_idx[j], lo, hi)})

\* np.digitize(x, bins=thresholds): the number of thresholds <= x
Digitize(x, thresh_idx, lo, hi) ==
    Cardinality({j \in DOMAIN thresh_idx : AtOrAboveCentre(x, thresh_idx[j], lo, hi)})

\* regions_image of one slice
RegionsImage(imagen, thresh_idx) ==
    LET lo == SetMin(Intensities(imagen))
        hi == SetMax(Intensities(imagen))
    IN  [r \in DOMAIN imagen |-> [c \in DOMAIN imagen[r] |->
            Digitize(imagen[r][c], thresh_idx, lo, hi)]]

\* the loop over the slices, from slice i on
RECURSIVE SegmentaSlices(_, _, _, _)
SegmentaSlices(vol, k, i, volumen_segmentado) ==
    IF i > Len(vol) THEN [status |-> "ok", volumen_segmentado |-> volumen_segmentado]
    ELSE LET thresholds == threshold_multiotsu(vol[i], k)
         IN  IF thresholds.status # "ok" THEN thresholds
             ELSE SegmentaSlices(vol, k, i + 1,
                     [volumen_segmentado EXCEPT
                         ![i] = RegionsImage(vol[i], thresholds.thresh_idx)])

Segmentar_Otsu(vol, k) ==
    SegmentaSlices(vol, k, 1,
        [i \in DOMAIN vol |-> Zeros2D(Len(vol[1]), Len(vol[1][1]))])

(***************************************************************************)
(* The volumes the Otsu segmentation is run on.                            *)
(***************************************************************************)
OtsuPix == 4      \* voxels of a slice (one row)

IntensityValues == {0, 1, 200, 400, 600}
ClassCounts == {2, 3}

\* every slice of one row of OtsuPix voxels
OtsuSlices == [1..1 -> [1..OtsuPix -> IntensityValues]]

\* a fixed slice with every voxel different
ProbeSlice == [r \in 1..1 |-> [c \in 1..OtsuPix |-> 50 * c]]

\* volumes of up to MaxSlices slices: any slice at one depth, the probe slice
\* at the others
InitOtsu ==
    /\ imagenes = <<>>
    /\ \E n \in 1..MaxSlices : \E d \in 1..n :
          \E s \in OtsuSlices :
             volumen = [[i \in 1..n |-> ProbeSlice] EXCEPT ![d] = s]
    /\ umbrales_hu = NoTable
    /\ classes \in ClassCounts
    /\ retCrea = NotCalled
    /\ retMeta = NotCalled
    /\ retHU = NotCalled
    /\ retOtsu = NotCalled
    /\ MuestraIdle /\ GuardaIdle /\ BucleIdle

CallSegmentarOtsu ==
    /\ retOtsu = NotCalled
    /\ retOtsu' = Segmentar_Otsu(volumen, classes)
    /\ UNCHANGED <<imagenes, volumen, umbrales_hu, classes, retCrea, retMeta, retHU,
                   varsMuestra, varsGuarda, varsBucle>>

NextOtsu == CallSegmentarOtsu
SpecOtsu == InitOtsu /\ [][NextOtsu]_vars

(***************************************************************************)
(* Properties of Segmentar_Otsu.                                           *)
(***************************************************************************)
OtsuCalled == retOtsu.status # "not called"

\* every voxel of slice i has a label in 0..k-1, and within the slice the
\* label does not decrease as the intensity increases
LabelsOrdered(vol, seg, i, k) ==
    /\ \A x \in Positions(vol[i]) : seg[i][x[1]][x[2]] \in 0..(k - 1)
    /\ \A x, y \in Positions(vol[i]) :
          vol[i][x[1]][x[2]] <= vol[i][y[1]][y[2]]
              => seg[i][x[1]][x[2]] <= seg[i][y[1]][y[2]]

CorteMedio(n) == (n \div 2) + 1

\* volumen[indice, :, :]
PlanoAxial(vol, indice) == vol[indice]

\* volumen[:, indice, :]
PlanoCoronal(vol, indice) == [i \in DOMAIN vol |-> vol[i][indice]]

\* volumen[:, :, indice]
PlanoSagital(vol, indice) ==
    [i \in DOMAIN vol |-> [r \in DOMAIN vol[i] |-> vol[i][r][indice]]]

\* the aspects handed to the axial, coronal and sagital imshow calls
AspectosDeVistas(relacion_aspecto) ==
    [axial |-> relacion_aspecto[1],
     coronal |-> relacion_aspecto[2],
     sagital |-> relacion_aspecto[3]]

MuestraVolumen(imgs) ==
    LET r == CreaVolumen(imgs)
    IN  IF r.status # "ok" THEN r
        ELSE LET aspectos == AspectosDeVistas(r.relacion_aspecto)
             IN  [status |-> "ok",
                  axial |-> [imagen |-> PlanoAxial(r.volumen, CorteMedio(r.shape[1])),
                             aspect |-> aspectos.axial],
                  coronal |-> [imagen |-> PlanoCoronal(r.volumen, CorteMedio(r.shape[2])),
                               aspect |-> aspectos.coronal],
                  sagital |-> [imagen |-> PlanoSagital(r.volumen, CorteMedio(r.shape[3])),
                               aspect |-> aspectos.sagital]]

CallMuestraVolumen ==
    /\ figura = NotCalled
    /\ figura' = MuestraVolumen(imagenes)
    /\ UNCHANGED <<imagenes, volumen, umbrales_hu, classes, retCrea, retMeta, retHU,
                   retOtsu, varsGuarda, varsBucle>>

InitMuestra == InitCrea
NextMuestra == CallMuestraVolumen
SpecMuestra == InitMuestra /\ [][NextMuestra]_vars

(***************************************************************************)
(* Properties of MuestraVolumen.                                           *)
(***************************************************************************)
\* C13: each view is drawn with the ratio CreaVolumen derives for the same
\* plane: axial with sliceThickness/rowSpacing, coronal with
\* sliceThickness/colSpacing, sagital with rowSpacing/colSpacing.
C13_ViewsUseOwnRatio ==
    figura.status = "ok" =>
        LET s0 == imagenes[1]
        IN  /\ figura.axial.aspect = Frac(s0.SliceThickness, s0.PixelSpacing[1])
            /\ figura.coronal.aspect = Frac(s0.SliceThickness, s0.PixelSpacing[2])
            /\ figura.sagital.aspect = Frac(s0.PixelSpacing[1], s0.PixelSpacing[2])

(***************************************************************************)
(* The save operations guarda_segmentaciones_hu and GuardaSegmentacionOtsu.*)
(* The disk is the set of folders that exist and the image files, a        *)
(* function from path to raster.  The path carpeta/<base>_<corte>.png is   *)
(* the triple <<carpeta, base, corte>>.  The mapping segmentaciones is a   *)
(* dictionary in insertion order: a sequence of <<tejido, mask>> entries   *)
(* with distinct keys.  The result of an operation is its status, the disk *)
(* it leaves and the sequence of paths it has written.                     *)
(*                                                                         *)
(* guarda_segmentaciones_hu differs between the two copies of archivo.py:  *)
(* modules/archivo.py creates the folder with exist_ok=True and saves      *)
(* inside the loop over the tissues; code/modules/archivo.py creates it    *)
(* without exist_ok and saves after the loop.  GuardaSegmentacionOtsu is   *)
(* the same in both.                                                       *)
(***************************************************************************)
MaxCalls == 2     \* save calls in a run

\* ndarray.astype(np.uint8) of a non-negative whole number
AstypeUint8(x) == x % 256

\* imagen.astype(np.uint8) * 255 at one pixel: the product of a uint8 array
\* and 255 is a uint8 array, so it wraps modulo 2^8
Uint8Por255(x) == (AstypeUint8(x) * 255) % 256

\* the array handed to io.imsave
Raster(imagen) ==
    [r \in DOMAIN imagen |-> [c \in DOMAIN imagen[r] |-> Uint8Por255(imagen[r][c])]]

TiposValidos == {"axial", "coronal", "sagital"}

\* the plane the if/elif chain picks for a valid tipo_corte
SeleccionaPlano(vol, tipo_corte) ==
    CASE tipo_corte = "axial" -> PlanoAxial(vol, CorteMedio(Len(vol)))
      [] tipo_corte = "coronal" -> PlanoCoronal(vol, CorteMedio(Len(vol[1])))
      [] tipo_corte = "sagital" -> PlanoSagital(vol, CorteMedio(Len(vol[1][1])))

\* os.makedirs(carpeta_salida, exist_ok=...)
Makedirs(dirs, carpeta_salida, exist_ok) ==
    IF carpeta_salida \in dirs /\ ~exist_ok
    THEN Raised("FileExistsError")
    ELSE [status |-> "ok", carpetas |-> dirs \cup {carpeta_salida}]

\* carpeta_salida/<base>_<tipo_corte>.png
Ruta(carpeta_salida, base, tipo_corte) == <<carpeta_salida, base, tipo_corte>>

\* io.imsave(ruta, raster): the file is created or overwritten
Imsave(files, ruta, raster) == (ruta :> raster) @@ files

Guardado(status, dirs, files, escritos) ==
    [status |-> status, carpetas |-> dirs, archivos |-> files, escritos |-> escritos]

\* modules/archivo.py: the loop over segmentaciones.items(), from entry j on;
\* with an invalid tipo_corte imagen is unbound when io.imsave is reached
RECURSIVE GuardaTejidos(_, _, _, _, _, _, _)
GuardaTejidos(segmentaciones, tipo_corte, carpeta_salida, j, dirs, files, escritos) ==
    IF j > Len(segmentaciones) THEN Guardado("ok", dirs, files, escritos)
    ELSE IF tipo_corte \notin TiposValidos
         THEN Guardado("UnboundLocalError", dirs, files, escritos)
    ELSE LET tejido == segmentaciones[j][1]
             imagen == SeleccionaPlano(segmentaciones[j][2], tipo_corte)
             ruta_completa == Ruta(carpeta_salida, tejido, tipo_corte)
         IN  GuardaTejidos(segmentaciones, tipo_corte, carpeta_salida, j + 1, dirs,
                           Imsave(files, ruta_completa, Raster(imagen)),
                           Append(escritos, ruta_completa))

guarda_segmentaciones_hu(segmentaciones, tipo_corte, carpeta_salida, dirs, files) ==
    LET mk == Makedirs(dirs, carpeta_salida, TRUE)
    IN  GuardaTejidos(segmentaciones, tipo_corte, carpeta_salida, 1,
                      mk.carpetas, files, <<>>)

\* code/modules/archivo.py: the loop only binds the locals tejido and imagen,
\* from entry j on; locales holds the locals that are bound
RECURSIVE RecorreTejidos(_, _, _, _)
RecorreTejidos(segmentaciones, tipo_corte, j, locales) ==
    IF j > Len(segmentaciones) THEN locales
    ELSE RecorreTejidos(segmentaciones, tipo_corte, j + 1,
            IF tipo_corte \in TiposValidos
            THEN ("tejido" :> segmentaciones[j][1])
                 @@ ("imagen" :> SeleccionaPlano(segmentaciones[j][2], tipo_corte))
            ELSE ("tejido" :> segmentaciones[j][1]) @@ locales)

\* code/modules/archivo.py: the file is named and saved once, after the loop
guarda_segmentaciones_hu_code(segmentaciones, tipo_corte, carpeta_salida, dirs, files) ==
    LET mk == Makedirs(dirs, carpeta_salida, FALSE)
    IN  IF mk.status # "ok" THEN Guardado(mk.status, dirs, files, <<>>)
        ELSE LET locales == RecorreTejidos(segmentaciones, tipo_corte, 1, <<>>)
             IN  IF "tejido" \notin DOMAIN locales \/ "imagen" \notin DOMAIN locales
                 THEN Guardado("UnboundLocalError", mk.carpetas, files, <<>>)
                 ELSE LET ruta_completa == Ruta(carpeta_salida, locales["tejido"], tipo_corte)
                      IN  Guardado("ok", mk.carpetas,
                                   Imsave(files, ruta_completa, Raster(locales["imagen"])),
                                   <<ruta_completa>>)

GuardaSegmentacionOtsu(volumen_segmentado, tipo_corte, carpeta_salida, nombre_base, dirs, files) ==
    LET mk == Makedirs(dirs, carpeta_salida, FALSE)
    IN  IF mk.status # "ok" THEN Guardado(mk.status, dirs, files, <<>>)
        ELSE IF tipo_corte \notin TiposValidos
             THEN Guardado("UnboundLocalError", mk.carpetas, files, <<>>)
        ELSE LET imagen == SeleccionaPlano(volumen_segmentado, tipo_corte)
                 ruta_completa == Ruta(carpeta_salida, nombre_base, tipo_corte)
             IN  Guardado("ok", mk.carpetas,
                          Imsave(files, ruta_completa, Raster(imagen)),
                          <<ruta_completa>>)

(***************************************************************************)
(* The arguments of the save calls.                                        *)
(***************************************************************************)
MaxClasses == 5   \* the class count MuestraSegmentacionOtsu asks for

\* a MaxSlices x MaxDim x MaxDim volume whose voxels all differ
RampVolume ==
    [i \in 1..MaxSlices |-> [r \in 1..MaxDim |-> [c \in 1..MaxDim |->
        ((i - 1) * MaxDim + (r - 1)) * MaxDim + c]]]

\* binary masks as segmentacion_hu makes them
SaveIntervals == {<<1, 5>>, <<3, 6>>, <<6, 8>>}
SaveMasks == {Mascara(RampVolume, iv[1], iv[2]) : iv \in SaveIntervals}

\* mappings over Tejidos, each tissue at most once, in every insertion order
Segmentaciones ==
    {t \in UNION {[1..k -> Tejidos \X SaveMasks] : k \in 0..Cardinality(Tejidos)} :
        \A a, b \in DOMAIN t : a # b => t[a][1] # t[b][1]}

\* label volumes with the labels 0..k-1, as Segmentar_Otsu makes them
LabelVolume(k) ==
    [i \in DOMAIN RampVolume |-> [r \in DOMAIN RampVolume[i] |->
        [c \in DOMAIN RampVolume[i][r] |-> RampVolume[i][r][c] % k]]]

LabelVolumes == {LabelVolume(k) : k \in 2..MaxClasses}

TiposCorte == TiposValidos \cup {"oblicuo"}
Carpetas == {"imagenes_hu", "imagenes_otsu"}

InitGuarda ==
    /\ imagenes = <<>>
    /\ volumen = NoVolume
    /\ umbrales_hu = NoTable
    /\ classes = 0
    /\ retCrea = NotCalled
    /\ retMeta = NotCalled
    /\ retHU = NotCalled
    /\ retOtsu = NotCalled
    /\ MuestraIdle /\ BucleIdle
    /\ copia \in {"modules", "code"}
    /\ carpetas = {}
    /\ archivos = <<>>
    /\ retGuarda = NotCalled
    /\ llamadas = 0

\* the record of a save call: its arguments, whether its folder was there
\* before, and what it did
Llamada(op, segmentaciones, volumen_segmentado, tipo_corte, carpeta_salida, r) ==
    [op |-> op,
     segmentaciones |-> segmentaciones,
     volumen_segmentado |-> volumen_segmentado,
     tipo_corte |-> tipo_corte,
     carpeta_salida |-> carpeta_salida,
     existia |-> carpeta_salida \in carpetas,
     status |-> r.status,
     escritos |-> r.escritos]

CallGuardaSegmentacionesHU ==
    /\ llamadas < MaxCalls
    /\ \E segmentaciones \in Segmentaciones, tipo_corte \in TiposCorte,
          carpeta_salida \in Carpetas :
          LET r == IF copia = "modules"
                   THEN guarda_segmentaciones_hu(segmentaciones, tipo_corte,
                                                 carpeta_salida, carpetas, archivos)
                   ELSE guarda_segmentaciones_hu_code(segmentaciones, tipo_corte,
                                                      carpeta_salida, carpetas, archivos)
          IN  /\ carpetas' = r.carpetas
              /\ archivos' = r.archivos
              /\ retGuarda' = Llamada("guarda_segmentaciones_hu", segmentaciones, <<>>,
                                      tipo_corte, carpeta_salida, r)
    /\ llamadas' = llamadas + 1
    /\ UNCHANGED <<imagenes, volumen, umbrales_hu, classes, retCrea, retMeta, retHU,
                   retOtsu, copia, varsMuestra, varsBucle>>

CallGuardaSegmentacionOtsu ==
    /\ llamadas < MaxCalls
    /\ \E volumen_segmentado \in LabelVolumes, tipo_corte \in TiposCorte,
          carpeta_salida \in Carpetas :
          LET r == GuardaSegmentacionOtsu(volumen_segmentado, tipo_corte, carpeta_salida,
                                          "segmentacion", carpetas, archivos)
          IN  /\ carpetas' = r.carpetas
              /\ archivos' = r.archivos
              /\ retGuarda' = Llamada("GuardaSegmentacionOtsu", <<>>, volumen_segmentado,
                                      tipo_corte, carpeta_salida, r)
    /\ llamadas' = llamadas + 1
    /\ UNCHANGED <<imagenes, volumen, umbrales_hu, classes, retCrea, retMeta, retHU,
                   retOtsu, copia, varsMuestra, varsBucle>>

NextGuarda == CallGuardaSegmentacionesHU \/ CallGuardaSegmentacionOtsu
SpecGuarda == InitGuarda /\ [][NextGuarda]_vars

(***************************************************************************)
(* Properties of the save operations.                                      *)
(***************************************************************************)
GuardaCalled == retGuarda # NotCalled

\* the planes the latest call was to export, by the path of their file
PlanosPedidos ==
    IF retGuarda.op = "guarda_segmentaciones_hu"
    THEN [ruta \in {Ruta(retGuarda.carpeta_salida, retGuarda.segmentaciones[j][1],
                         retGuarda.tipo_corte) : j \in DOMAIN retGuarda.segmentaciones}
            |-> LET j == CHOOSE k \in DOMAIN retGuarda.segmentaciones :
                            retGuarda.segmentaciones[k][1] = ruta[2]
                IN  SeleccionaPlano(retGuarda.segmentaciones[j][2], retGuarda.tipo_corte)]
    ELSE [ruta \in {Ruta(retGuarda.carpeta_salida, "segmentacion", retGuarda.tipo_corte)}
            |-> SeleccionaPlano(retGuarda.volumen_segmentado, retGuarda.tipo_corte)]

Pixels(imagen) == {<<r, c>> : r \in DOMAIN imagen, c \in DOMAIN imagen[1]}

\* C11: in every file a save call writes, each pixel is in 0..255; a binary
\* mask value 1 becomes 255 and 0 becomes 0; of two voxels with adaptive
\* labels in 0..k-1, the one with the larger label never gets the smaller
\* pixel value.
C11_ExportScaling ==
    (GuardaCalled /\ retGuarda.status = "ok") =>
        \A n \in DOMAIN retGuarda.escritos :
            LET ruta == retGuarda.escritos[n]
                plano == PlanosPedidos[ruta]
                raster == archivos[ruta]
            IN  /\ \A p \in Pixels(raster) : raster[p[1]][p[2]] \in 0..255
                /\ retGuarda.op = "guarda_segmentaciones_hu" =>
                      \A p \in Pixels(plano) :
                          raster[p[1]][p[2]] = IF plano[p[1]][p[2]] = 1 THEN 255 ELSE 0
                /\ retGuarda.op = "GuardaSegmentacionOtsu" =>
                      \A p, q \in Pixels(plano) :
                          plano[p[1]][p[2]] < plano[q[1]][q[2]]
                              => raster[p[1]][p[2]] <= raster[q[1]][q[2]]

\* C14: for a non-empty mapping and a valid cut type, guarda_segmentaciones_hu
\* writes exactly one PNG per tissue of the mapping, named <tissue>_<cut>.png
\* and holding that tissue's middle plane along the chosen axis.
C14_OnePNGPerTissue ==
    (/\ GuardaCalled
     /\ retGuarda.op = "guarda_segmentaciones_hu"
     /\ Len(retGuarda.segmentaciones) > 0
     /\ retGuarda.tipo_corte \in TiposValidos) =>
        /\ retGuarda.status = "ok"
        /\ Len(retGuarda.escritos) = Len(retGuarda.segmentaciones)
        /\ {retGuarda.escritos[n] : n \in DOMAIN retGuarda.escritos} = DOMAIN PlanosPedidos
        /\ \A ruta \in DOMAIN PlanosPedidos :
              /\ ruta \in DOMAIN archivos
              /\ \A p \in Pixels(PlanosPedidos[ruta]) :
                    archivos[ruta][p[1]][p[2]]
                        = IF PlanosPedidos[ruta][p[1]][p[2]] = 1 THEN 255 ELSE 0

\* C15: a save call with a valid cut type (and, for guarda_segmentaciones_hu,
\* a non-empty mapping) whose output folder already exists succeeds and
\* writes its image.
C15_ExistingFolderIsFine ==
    (/\ GuardaCalled
     /\ retGuarda.existia
     /\ retGuarda.tipo_corte \in TiposValidos
     /\ retGuarda.op = "guarda_segmentaciones_hu" => Len(retGuarda.segmentaciones) > 0) =>
        /\ retGuarda.status = "ok"
        /\ Len(retGuarda.escritos) > 0
        /\ \A n \in DOMAIN retGuarda.escritos : retGuarda.escritos[n] \in DOMAIN archivos

(***************************************************************************)
(* The per-slice loops of CreaVolumen and Segmentar_Otsu, one loop step at *)
(* a time.  The step for slice i is the body of the for loop; the steps    *)
(* are taken in any order, the order of the for loop being one of them.    *)
(* What comes before the loop (the allocation of the output) and after it  *)
(* (the geometry and the return) are steps of their own.                   *)
(***************************************************************************)
\* CreaVolumen, lines 64-68: the output is allocated with slice 0's shape
IniciaCreaVolumen ==
    /\ operacion = "CreaVolumen"
    /\ pc = "inicio"
    /\ IF Len(imagenes) = 0
       THEN /\ retCrea' = Raised("IndexError")
            /\ pc' = "fin"
            /\ UNCHANGED salida
       ELSE /\ salida' = [i \in 1..Len(imagenes) |->
                             Zeros2D(Shape(imagenes[1].pixel_array)[1],
                                     Shape(imagenes[1].pixel_array)[2])]
            /\ pc' = "bucle"
            /\ UNCHANGED retCrea
    /\ UNCHANGED <<imagenes, volumen, umbrales_hu, classes, retMeta, retHU, retOtsu,
                   operacion, hechos, varsMuestra, varsGuarda>>

\* CreaVolumen, lines 72-78, for slice i: the outcome of the step and the
\* output volume it leaves
PasoConvierte(imgs, i, vol) ==
    IF ~HasAttr(imgs[i], "RescaleIntercept") THEN Raised("AttributeError")
    ELSE IF ~HasAttr(imgs[i], "RescaleSlope") THEN Raised("AttributeError")
    ELSE LET imagen == EscalaHounsfield(imgs[i].RescaleSlope, imgs[i].pixel_array,
                                        imgs[i].RescaleIntercept)
             filas == Len(vol[i])
             columnas == Len(vol[i][1])
         IN  IF ~Broadcastable(imagen, filas, columnas)
             THEN Raised("ValueError")
             ELSE [status |-> "ok",
                   volumen |-> [vol EXCEPT ![i] = Broadcast(imagen, filas, columnas)]]

PasoCreaVolumen(i) ==
    /\ operacion = "CreaVolumen"
    /\ pc = "bucle"
    /\ i \in DOMAIN imagenes \ hechos
    /\ LET paso == PasoConvierte(imagenes, i, salida)
       IN  IF paso.status # "ok"
           THEN /\ retCrea' = paso
                /\ pc' = "fin"
                /\ UNCHANGED <<salida, hechos>>
           ELSE /\ salida' = paso.volumen
                /\ hechos' = hechos \cup {i}
                /\ UNCHANGED <<retCrea, pc>>
    /\ UNCHANGED <<imagenes, volumen, umbrales_hu, classes, retMeta, retHU, retOtsu,
                   operacion, varsMuestra, varsGuarda>>

\* CreaVolumen, lines 81-93: the geometry of slice 0 and the return
TerminaCreaVolumen ==
    /\ operacion = "CreaVolumen"
    /\ pc = "bucle"
    /\ hechos = DOMAIN imagenes
    /\ pc' = "fin"
    /\ LET s0 == imagenes[1]
       IN  retCrea' =
             IF ~HasAttr(s0, "PixelSpacing") THEN Raised("AttributeError")
             ELSE IF ~HasAttr(s0, "SliceThickness") THEN Raised("AttributeError")
             ELSE IF s0.PixelSpacing[1] = 0 \/ s0.PixelSpacing[2] = 0
                  THEN Raised("ZeroDivisionError")
             ELSE [status |-> "ok",
                   volumen |-> salida,
                   shape |-> <<Len(salida), Len(salida[1]), Len(salida[1][1])>>,
                   relacion_aspecto |-> RelacionAspecto(s0.PixelSpacing, s0.SliceThickness),
                   tamano_voxel |-> TamanoVoxel(s0.PixelSpacing, s0.SliceThickness)]
    /\ UNCHANGED <<imagenes, volumen, umbrales_hu, classes, retMeta, retHU, retOtsu,
                   operacion, hechos, salida, varsMuestra, varsGuarda>>

\* Segmentar_Otsu, line 254: the output is allocated with the volume's shape
IniciaSegmentarOtsu ==
    /\ operacion = "Segmentar_Otsu"
    /\ pc = "inicio"
    /\ salida' = [i \in DOMAIN volumen |-> Zeros2D(Len(volumen[1]), Len(volumen[1][1]))]
    /\ pc' = "bucle"
    /\ UNCHANGED <<imagenes, volumen, umbrales_hu, classes, retCrea, retMeta, retHU,
                   retOtsu, operacion, hechos, varsMuestra, varsGuarda>>

\* Segmentar_Otsu, lines 258-267, for slice i
PasoSegmenta(vol, k, i, volumen_segmentado) ==
    LET thresholds == threshold_multiotsu(vol[i], k)
    IN  IF thresholds.status # "ok" THEN thresholds
        ELSE [status |-> "ok",
              volumen_segmentado |->
                  [volumen_segmentado EXCEPT
                      ![i] = RegionsImage(vol[i], thresholds.thresh_idx)]]

PasoSegmentarOtsu(i) ==
    /\ operacion = "Segmentar_Otsu"
    /\ pc = "bucle"
    /\ i \in DOMAIN volumen \ hechos
    /\ LET paso == PasoSegmenta(volumen, classes, i, salida)
       IN  IF paso.status # "ok"
           THEN /\ retOtsu' = [status |-> paso.status]
                /\ pc' = "fin"
                /\ UNCHANGED <<salida, hechos>>
           ELSE /\ salida' = paso.volumen_segmentado
                /\ hechos' = hechos \cup {i}
                /\ UNCHANGED <<retOtsu, pc>>
    /\ UNCHANGED <<imagenes, volumen, umbrales_hu, classes, retCrea, retMeta, retHU,
                   operacion, varsMuestra, varsGuarda>>

\* Segmentar_Otsu, line 269: the return
TerminaSegmentarOtsu ==
    /\ operacion = "Segmentar_Otsu"
    /\ pc = "bucle"
    /\ hechos = DOMAIN volumen
    /\ pc' = "fin"
    /\ retOtsu' = [status |-> "ok", volumen_segmentado |-> salida]
    /\ UNCHANGED <<imagenes, volumen, umbrales_hu, classes, retCrea, retMeta, retHU,
                   operacion, hechos, salida, varsMuestra, varsGuarda>>

\* the lists of slices and the volumes of the other specifications
InitBucle ==
    /\ umbrales_hu = NoTable
    /\ retCrea = NotCalled
    /\ retMeta = NotCalled
    /\ retHU = NotCalled
    /\ retOtsu = NotCalled
    /\ MuestraIdle /\ GuardaIdle
    /\ pc = "inicio"
    /\ hechos = {}
    /\ salida = <<>>
    /\ \/ /\ operacion = "CreaVolumen"
          /\ imagenes \in SeqsUpTo(PixelSlices, MaxSlices)
                          \cup SeqsUpTo(GeometrySlices, MaxSlices)
          /\ volumen = NoVolume
          /\ classes = 0
       \/ /\ operacion = "Segmentar_Otsu"
          /\ imagenes = <<>>
          /\ \E n \in 1..MaxSlices : \E d \in 1..n :
                \E s \in OtsuSlices :
                   volumen = [[i \in 1..n |-> ProbeSlice] EXCEPT ![d] = s]
          /\ classes \in ClassCounts

NextBucle ==
    \/ IniciaCreaVolumen
    \/ \E i \in 1..MaxSlices : PasoCreaVolumen(i)
    \/ TerminaCreaVolumen
    \/ IniciaSegmentarOtsu
    \/ \E i \in 1..MaxSlices : PasoSegmentarOtsu(i)
    \/ TerminaSegmentarOtsu

SpecBucle == InitBucle /\ [][NextBucle]_vars

(***************************************************************************)
(* Properties of the per-slice loops.                                      *)
(***************************************************************************)
\* the lists of slices CreaVolumen is run on
ListasDeSlices ==
    SeqsUpTo(PixelSlices, MaxSlices) \cup SeqsUpTo(GeometrySlices, MaxSlices)

\* the output of a finished step of CreaVolumen is the output slice i has in
\* the sequential run on any other list that holds the same slice at i
SalidaPropiaCrea ==
    (operacion = "CreaVolumen" /\ pc \in {"bucle", "fin"}) =>
        \A i \in hechos :
            \A otras \in ListasDeSlices :
                (/\ i \in DOMAIN otras
                 /\ otras[i] = imagenes[i]
                 /\ CreaVolumen(otras).status = "ok")
                => CreaVolumen(otras).volumen[i] = salida[i]

\* the output of a finished step of Segmentar_Otsu is the output the slice
\* has in the sequential run on the volume that holds this slice only
SalidaPropiaOtsu ==
    (operacion = "Segmentar_Otsu" /\ pc \in {"bucle", "fin"}) =>
        \A i \in hechos :
            LET sola == Segmentar_Otsu(<<volumen[i]>>, classes)
            IN  sola.status = "ok" /\ sola.volumen_segmentado[1] = salida[i]

\* whatever the order of the steps, the run returns a volume exactly when the
\* sequential loop does, and then the same volume
MismoVolumenQueElBucle ==
    pc = "fin" =>
        /\ operacion = "CreaVolumen" =>
              LET sec == CreaVolumen(imagenes)
              IN  /\ retCrea.status = "ok" <=> sec.status = "ok"
                  /\ sec.status = "ok" => retCrea = sec
        /\ operacion = "Segmentar_Otsu" =>
              LET sec == Segmentar_Otsu(volumen, classes)
              IN  /\ retOtsu.status = "ok" <=> sec.status = "ok"
                  /\ sec.status = "ok" => retOtsu = sec

\* the step for slice i writes output[i] only
SoloEscribeSuSlice ==
    [][\A i \in DOMAIN salida :
          (i \in DOMAIN salida' /\ salida'[i] # salida[i]) => hechos' = hechos \cup {i}]_vars

\* C12: in CreaVolumen and in Segmentar_Otsu the output for slice i is the
\* same whatever the other slices contain, and the per-slice steps run in
\* any order yield the output volume of the sequential loop.
C12_SlicesIndependent ==
    /\ SalidaPropiaCrea
    /\ SalidaPropiaOtsu
    /\ MismoVolumenQueElBucle

====
